---- MODULE Spec2Model ----
(***************************************************************************)
(* Data access repositories of geniepy (datamgmt/repositories.py).         *)
(*                                                                         *)
(* The module models one storage location (a set of named backend tables), *)
(* the SqlRepository constructed on it, a GbqRepository, and the generator *)
(* returned by the latest SqlRepository.query call.  The backend calls     *)
(* made by the code (Table.create, Table.drop, DataFrame.to_sql,           *)
(* pandas.read_sql) are modelled by what they do to the backend tables.    *)
(***************************************************************************)
EXTENDS Integers, Sequences, FiniteSets, TLC

\* ------------------------------------------------------------------ bounds
MaxRows == 3        \* rows a backend table may hold in the model
MaxPayload == 2     \* rows of one DataFrame passed to save
MaxChunk == 2       \* largest chunksize passed to query

\* --------------------------------------------------------------- constants
NULL == "NULL"

CTD_TABLE_NAME == "ctd"
OTHER_TABLE_NAME == "other"
TableNames == {CTD_TABLE_NAME, OTHER_TABLE_NAME}

\* The ctd schema object: its name, its columns, its nullable=False columns.
CTD_DAO_TABLE ==
  [name    |-> CTD_TABLE_NAME,
   cols    |-> {"digest", "genesymbol", "geneid", "diseasename", "diseaseid", "pmids"},
   notnull |-> {"digest", "geneid", "diseaseid", "pmids"}]

\* ---------------------------------------------------------------- payloads
Digests == {"d1", "d2"}

ColumnValue(c, d) ==
  CASE c = "digest"      -> d
    [] c = "genesymbol"  -> "g"
    [] c = "geneid"      -> "1"
    [] c = "diseasename" -> "n"
    [] c = "diseaseid"   -> "D1"
    [] c = "pmids"       -> "100"
    [] OTHER             -> "x"

MkRow(cols, d) == [c \in cols |-> ColumnValue(c, d)]

\* Column sets of the DataFrames passed to save: the schema's columns, the
\* schema without nullable columns, without a required column, with an
\* extra column.
FullCols == CTD_DAO_TABLE.cols
MissingNullableCols == FullCols \ {"genesymbol", "diseasename"}
MissingRequiredCols == FullCols \ {"geneid"}
ExtraCols == FullCols \cup {"extra"}
FrameColumnSets == {FullCols, MissingNullableCols, MissingRequiredCols, ExtraCols}

DigestSeqs == UNION {[1..n -> Digests] : n \in 0..MaxPayload}

MkFrame(cs, ds) == [cols |-> cs, rows |-> [i \in 1..Len(ds) |-> MkRow(cs, ds[i])]]

\* DataFrames passed to save: every row sequence with the schema's columns,
\* a one-row frame of each other column set, and a frame without rows that
\* has an extra column.
Frames ==
  {MkFrame(FullCols, ds) : ds \in DigestSeqs}
    \cup {MkFrame(cs, <<"d1">>) : cs \in FrameColumnSets \ {FullCols}}
    \cup {MkFrame(ExtraCols, <<>>)}

EmptyFrame == [cols |-> FullCols, rows |-> <<>>]

ChunkSizes == 1..MaxChunk

\* ----------------------------------------------------------------- helpers
Min(a, b) == IF a < b THEN a ELSE b

Take(s, k) == SubSeq(s, 1, Min(k, Len(s)))

RECURSIVE Concat(_)
Concat(chunks) ==
  IF chunks = <<>> THEN <<>> ELSE Head(chunks) \o Concat(Tail(chunks))

CeilDiv(n, k) == (n + k - 1) \div k

Count(s, x) == Cardinality({i \in 1..Len(s) : s[i] = x})

Range(s) == {s[i] : i \in 1..Len(s)}

\* A row as the backend stores it in a table with columns cols: a column the
\* INSERT does not name is stored as NULL.
Fill(row, cols) == [c \in cols |-> IF c \in DOMAIN row THEN row[c] ELSE NULL]

FillAll(rows, cols) == [i \in 1..Len(rows) |-> Fill(rows[i], cols)]

\* ------------------------------------------------------------------- state
VARIABLES
  db,       \* backend tables of the storage location, by name
  repo,     \* the SqlRepository object: _tablename, _table
  gbq,      \* the GbqRepository object: _tablename, _table, _proj
  cur,      \* the generator returned by the latest SqlRepository.query
  last,     \* outcome of the latest call
  arg,      \* the DataFrame passed to the latest call, when it was a save
  saved,    \* rows of the saves that returned since construction / delete_all
  emptyChunk \* the installed pandas yields one empty DataFrame for an empty
             \* result (pandas from 1.3 on) or yields nothing (before)

vars == <<db, repo, gbq, cur, last, arg, saved, emptyChunk>>

NoTable == [exists |-> FALSE, cols |-> {}, notnull |-> {}, rows |-> <<>>]

NoError == [kind |-> "", cause |-> ""]

\* The latest call: the operation, the repository kind it was called on,
\* whether it raised and what, the backend table it addressed, the number
\* of backend statements it issued, how the backend ended, and the chunk
\* a next() returned.
NoCall == [op |-> "", on |-> "", raised |-> FALSE, error |-> NoError,
           target |-> "", writes |-> 0, backend |-> "", value |-> <<>>]

\* The generator: its position in pandas' loop (state), the rows its result
\* has not handed out yet (pending), whether the result is read from the
\* backend as it is fetched (live "yes") or was buffered when the SELECT ran
\* (live "no"), which the backend decides and which first shows when a
\* write meets the open result (live "unknown" until then), and, while no save or delete_all was
\* called since the query (clean), the chunks it has yielded, the rows the
\* table held and the value of saved at the query, and the call before the
\* query with the frame it was given.
NoCursor ==
  [state |-> "none", chunksize |-> 1, pending |-> <<>>, started |-> FALSE,
   live |-> "unknown", chunks |-> <<>>, atOpen |-> <<>>, expected |-> <<>>, clean |-> TRUE,
   after |-> "", given |-> EmptyFrame]

\* save or delete_all was called while the generator was alive: its history
\* is no longer that of an undisturbed iteration.
Disturbed(c) ==
  [c EXCEPT !.clean = FALSE, !.chunks = <<>>, !.atOpen = <<>>,
            !.expected = <<>>, !.after = "", !.given = EmptyFrame,
            !.chunksize = IF c.state = "done" THEN 1 ELSE @,
            !.started = IF c.state = "done" THEN FALSE ELSE @]

Returned(op, on, target, writes) ==
  [op |-> op, on |-> on, raised |-> FALSE, error |-> NoError,
   target |-> target, writes |-> writes, backend |-> "", value |-> <<>>]

Raised(op, on, target, writes, error) ==
  [op |-> op, on |-> on, raised |-> TRUE, error |-> error,
   target |-> target, writes |-> writes, backend |-> error.cause, value |-> <<>>]

\* next() returned the chunk data
Yielded(target, data) ==
  [op |-> "next", on |-> "sql", raised |-> FALSE, error |-> NoError,
   target |-> target, writes |-> 0, backend |-> "", value |-> data]

Init ==
  /\ db = [n \in TableNames |-> NoTable]
  /\ repo = [live |-> FALSE, tablename |-> "", table |-> CTD_DAO_TABLE]
  /\ gbq = [live |-> FALSE, tablename |-> "", table |-> CTD_DAO_TABLE, proj |-> ""]
  /\ cur = NoCursor
  /\ last = NoCall
  /\ arg = EmptyFrame
  /\ saved = <<>>
  /\ emptyChunk \in BOOLEAN

\* ------------------------------------------------------- backend operations
\* Table.create(engine): checkfirst defaults to False, so CREATE TABLE is
\* issued unconditionally and fails when the table exists.
TableCreate(d, table) ==
  IF d[table.name].exists
  THEN [err |-> "TableExists", db |-> d]
  ELSE [err |-> "",
        db  |-> [d EXCEPT ![table.name] =
                   [exists |-> TRUE, cols |-> table.cols,
                    notnull |-> table.notnull, rows |-> <<>>]]]

\* Table.drop(engine): DROP TABLE, fails when the table is absent.
TableDrop(d, table) ==
  IF d[table.name].exists
  THEN [err |-> "", db |-> [d EXCEPT ![table.name] = NoTable]]
  ELSE [err |-> "NoSuchTable", db |-> d]

\* Variant of InsertRows: the write is lost.
InsertRowsLost(old, new) == old

\* if_exists="append": the new rows go after the rows already stored.
InsertRows(old, new) == old \o new

\* Variant of ToSql: the backend table carries no NOT NULL constraint.
ToSqlUnconstrained(tbl, frame) ==
  IF ~tbl.exists
  THEN [err |-> "",
        tbl |-> [exists |-> TRUE, cols |-> frame.cols, notnull |-> {},
                 rows |-> frame.rows]]
  ELSE IF frame.rows = <<>>
  THEN [err |-> "", tbl |-> tbl]
  ELSE IF ~(frame.cols \subseteq tbl.cols)
  THEN [err |-> "NoSuchColumn", tbl |-> tbl]
  ELSE [err |-> "",
        tbl |-> [tbl EXCEPT !.rows = @ \o FillAll(frame.rows, tbl.cols)]]

\* payload.to_sql(name, if_exists="append", index=False, method="multi") on
\* the table tbl: an absent table is created from the frame's columns; a
\* frame without rows issues no INSERT; otherwise one multi-row INSERT that
\* names the frame's columns, which the backend rejects as a whole when a
\* named column does not exist or a NOT NULL column is left out.
ToSql(tbl, frame) ==
  IF ~tbl.exists
  THEN [err |-> "",
        tbl |-> [exists |-> TRUE, cols |-> frame.cols, notnull |-> {},
                 rows |-> InsertRows(<<>>, frame.rows)]]
  ELSE IF frame.rows = <<>>
  THEN [err |-> "", tbl |-> tbl]
  ELSE IF ~(frame.cols \subseteq tbl.cols)
  THEN [err |-> "NoSuchColumn", tbl |-> tbl]
  ELSE IF ~(tbl.notnull \subseteq frame.cols)
  THEN [err |-> "NotNullViolation", tbl |-> tbl]
  ELSE [err |-> "",
        tbl |-> [tbl EXCEPT !.rows = InsertRows(@, FillAll(frame.rows, tbl.cols))]]

\* raise DaoError(sql_exp)
DaoError(cause) == [kind |-> "DaoError", cause |-> cause]

\* Variant of SaveOutcome: the backend's exception escapes unwrapped.
SaveOutcomeRaw(target, err) ==
  [(IF err = ""
    THEN Returned("save", "sql", target, 1)
    ELSE Raised("save", "sql", target, 1, [kind |-> "OperationalError", cause |-> err]))
   EXCEPT !.backend = err]

\* save's try / except Exception around the one to_sql call: err is what the
\* backend write ended with ("" when it went through), recorded as backend.
SaveOutcome(target, err) ==
  [(IF err = ""
    THEN Returned("save", "sql", target, 1)
    ELSE Raised("save", "sql", target, 1, DaoError(err)))
   EXCEPT !.backend = err]

\* What a write can find the generator's result to be: nothing to meet
\* unless the generator is between fetches.
Modes(c) ==
  IF c.state # "open" THEN {c.live}
  ELSE IF c.live = "unknown" THEN {"yes", "no"}
  ELSE {c.live}

\* The result of a query that is still being read from the backend.
OpenResult(c, mode) == c.state = "open" /\ mode = "yes"

\* Failures of the backend that do not depend on the payload: the connection
\* drops, or the database is locked by the open result of a query.
WriteFaults(c, mode) ==
  {"", "ConnectionLost"} \cup (IF OpenResult(c, mode) THEN {"DatabaseLocked"} ELSE {})

\* Variants of FetchMany: one row too many; one row too few.
FetchManyOver(pending, k) == Take(pending, k + 1)

FetchManyUnder(pending, k) == Take(pending, k - 1)

\* result.fetchmany(chunksize)
FetchMany(pending, k) == Take(pending, k)

\* ------------------------------------------------------------ SqlRepository
\* SqlRepository.__init__(db_loc, tablename, table)
SqlInit(tablename) ==
  LET res == TableCreate(db, CTD_DAO_TABLE) IN
  /\ db' = res.db
  /\ IF res.err = ""
     THEN /\ repo' = [live |-> TRUE, tablename |-> tablename, table |-> CTD_DAO_TABLE]
          /\ last' = Returned("init", "sql", CTD_DAO_TABLE.name, 1)
          /\ saved' = <<>>
     ELSE /\ repo' = repo
          /\ last' = Raised("init", "sql", CTD_DAO_TABLE.name, 1,
                            [kind |-> "OperationalError", cause |-> res.err])
          /\ saved' = saved
  /\ arg' = EmptyFrame
  /\ UNCHANGED <<gbq, cur, emptyChunk>>

\* SqlRepository.save(payload)
SqlSave(frame) ==
  /\ repo.live
  /\ Len(db[repo.tablename].rows) + Len(frame.rows) <= MaxRows
  /\ \E mode \in Modes(cur) : \E fault \in WriteFaults(cur, mode), seen \in BOOLEAN :
       LET target == repo.tablename
           tbl    == db[target]
           res    == IF fault # "" THEN [err |-> fault, tbl |-> tbl]
                                   ELSE ToSql(tbl, frame)
           added  == SubSeq(res.tbl.rows, Len(tbl.rows) + 1, Len(res.tbl.rows))
       IN /\ (~OpenResult(cur, mode) \/ res.err # "") => ~seen
          /\ db' = [db EXCEPT ![target] = res.tbl]
          /\ arg' = frame
          /\ last' = SaveOutcome(target, res.err)
          /\ saved' = IF res.err = ""
                      THEN saved \o FillAll(frame.rows, repo.table.cols)
                      ELSE saved
          /\ cur' = IF cur.state = "none"
                    THEN cur
                    ELSE [Disturbed(cur) EXCEPT
                            !.live = mode,
                            !.pending = IF seen THEN @ \o added ELSE @]
  /\ UNCHANGED <<repo, gbq, emptyChunk>>

\* SqlRepository.delete_all()
SqlDeleteAll ==
  /\ repo.live
  /\ \E mode \in Modes(cur) :
       LET locked  == OpenResult(cur, mode)
           moded   == [cur EXCEPT !.live = mode]
           target  == repo.table.name
           dropped == TableDrop(db, repo.table)
           created == TableCreate(dropped.db, repo.table)
       IN IF locked
          THEN /\ last' = Raised("delete_all", "sql", target, 1,
                                 [kind |-> "OperationalError", cause |-> "DatabaseLocked"])
               /\ cur' = Disturbed(moded)
               /\ UNCHANGED <<db, saved>>
          ELSE IF dropped.err # ""
          THEN /\ last' = Raised("delete_all", "sql", target, 1,
                                 [kind |-> "OperationalError", cause |-> dropped.err])
               /\ cur' = IF cur.state = "none" THEN cur ELSE Disturbed(moded)
               /\ UNCHANGED <<db, saved>>
          ELSE /\ db' = created.db
               /\ last' = IF created.err = ""
                          THEN Returned("delete_all", "sql", target, 2)
                          ELSE Raised("delete_all", "sql", target, 2,
                                      [kind |-> "OperationalError", cause |-> created.err])
               /\ saved' = <<>>
               /\ cur' = IF cur.state = "none" THEN cur ELSE Disturbed(moded)
  /\ arg' = EmptyFrame
  /\ UNCHANGED <<repo, gbq, emptyChunk>>

\* SqlRepository.query(None, chunksize): pd.read_sql(self._tablename, ...)
\* executes the SELECT and returns the generator over its result.
SqlQuery(k) ==
  /\ repo.live
  /\ LET target == repo.tablename IN
     IF db[target].exists
     THEN /\ cur' = [state |-> "open", chunksize |-> k,
                     pending |-> db[target].rows, started |-> FALSE,
                     live |-> "unknown", chunks |-> <<>>, atOpen |-> db[target].rows,
                     expected |-> saved, clean |-> TRUE,
                     after |-> IF last.raised \/ last.op \notin {"save", "delete_all"}
                               THEN "" ELSE last.op,
                     given |-> IF last.raised THEN EmptyFrame ELSE arg]
          /\ last' = Returned("query", "sql", target, 0)
     ELSE /\ cur' = cur
          /\ last' = Raised("query", "sql", target, 0,
                            [kind |-> "ValueError", cause |-> "TableNotFound"])
  /\ arg' = EmptyFrame
  /\ UNCHANGED <<db, repo, gbq, saved, emptyChunk>>

\* next() on the generator returned by query: one turn of pandas' loop
\*   data = result.fetchmany(chunksize)
\*   if not data: (yield an empty frame if nothing was read yet); break
\*   yield DataFrame(data)
SqlNext ==
  /\ cur.state \in {"open", "emptied", "done"}
  /\ LET data == FetchMany(cur.pending, cur.chunksize) IN
     IF cur.state = "open" /\ data # <<>>
     THEN /\ cur' = [cur EXCEPT !.pending = SubSeq(@, Len(data) + 1, Len(@)),
                                !.started = TRUE,
                                !.chunks = IF cur.clean THEN Append(@, data) ELSE @]
          /\ last' = Yielded(repo.tablename, data)
     ELSE IF cur.state = "open" /\ ~cur.started /\ emptyChunk
     THEN /\ cur' = [cur EXCEPT !.state = "emptied",
                                !.chunks = IF cur.clean THEN Append(@, <<>>) ELSE @]
          /\ last' = Yielded(repo.tablename, <<>>)
     ELSE /\ cur' = [cur EXCEPT !.state = "done"]
          /\ last' = Raised("next", "sql", repo.tablename, 0,
                            [kind |-> "StopIteration", cause |-> ""])
  /\ arg' = EmptyFrame
  /\ UNCHANGED <<db, repo, gbq, saved, emptyChunk>>

\* ------------------------------------------------------------ GbqRepository
\* GbqRepository.__init__(db_loc, tablename, table, credentials_path)
GbqInit(tablename) ==
  /\ gbq' = [live |-> TRUE, tablename |-> tablename, table |-> CTD_DAO_TABLE,
             proj |-> "project"]
  /\ last' = Returned("init", "gbq", tablename, 0)
  /\ arg' = EmptyFrame
  /\ UNCHANGED <<db, repo, cur, saved, emptyChunk>>

NotImplemented == [kind |-> "NotImplementedError", cause |-> ""]

\* Variant of GbqSave: the call does nothing and returns.
GbqSaveSilent(frame) ==
  /\ gbq.live
  /\ last' = Returned("save", "gbq", gbq.tablename, 0)
  /\ arg' = frame
  /\ UNCHANGED <<db, repo, gbq, cur, saved, emptyChunk>>

\* GbqRepository.save(payload)
GbqSave(frame) ==
  /\ gbq.live
  /\ last' = Raised("save", "gbq", gbq.tablename, 0, NotImplemented)
  /\ arg' = frame
  /\ UNCHANGED <<db, repo, gbq, cur, saved, emptyChunk>>

\* GbqRepository.delete_all()
GbqDeleteAll ==
  /\ gbq.live
  /\ last' = Raised("delete_all", "gbq", gbq.tablename, 0, NotImplemented)
  /\ arg' = EmptyFrame
  /\ UNCHANGED <<db, repo, gbq, cur, saved, emptyChunk>>

\* GbqRepository.query(query, chunksize): no yield in the body, so the raise
\* happens at the call.
GbqQuery(k) ==
  /\ gbq.live
  /\ last' = Raised("query", "gbq", gbq.tablename, 0, NotImplemented)
  /\ arg' = EmptyFrame
  /\ UNCHANGED <<db, repo, gbq, cur, saved, emptyChunk>>

\* ---------------------------------------------------------- specifications
\* No generator is in the middle of its iteration.
Idle == cur.state \notin {"open", "emptied"}

\* One caller: construct, save, delete_all, query, and consume or abandon
\* the generator before the next save or delete_all.
Next ==
  \/ \E n \in TableNames : SqlInit(n)
  \/ Idle /\ \E f \in Frames : SqlSave(f)
  \/ Idle /\ SqlDeleteAll
  \/ \E k \in ChunkSizes : SqlQuery(k)
  \/ SqlNext

Spec == Init /\ [][Next]_vars

\* save and delete_all called between the fetches of a generator.
RaceFrames ==
  {MkFrame(FullCols, <<d>>) : d \in Digests} \cup {MkFrame(MissingRequiredCols, <<"d1">>)}

NextRace ==
  \/ SqlInit(CTD_TABLE_NAME)
  \/ \E f \in RaceFrames : SqlSave(f)
  \/ SqlDeleteAll
  \/ \E k \in ChunkSizes : SqlQuery(k)
  \/ SqlNext

SpecRace == Init /\ [][NextRace]_vars

\* The generator's consumer keeps calling next().
FairRace == SpecRace /\ WF_vars(SqlNext)

\* Calls on the warehouse repository, next to a relational repository whose
\* table already holds rows.
InitGbq ==
  /\ \E ds \in DigestSeqs :
       /\ db = [TableCreate([n \in TableNames |-> NoTable], CTD_DAO_TABLE).db
                  EXCEPT ![CTD_TABLE_NAME].rows = MkFrame(FullCols, ds).rows]
       /\ saved = MkFrame(FullCols, ds).rows
  /\ repo = [live |-> TRUE, tablename |-> CTD_TABLE_NAME, table |-> CTD_DAO_TABLE]
  /\ gbq = [live |-> FALSE, tablename |-> "", table |-> CTD_DAO_TABLE, proj |-> ""]
  /\ cur = NoCursor
  /\ last = NoCall
  /\ arg = EmptyFrame
  /\ emptyChunk \in BOOLEAN

NextGbq ==
  \/ \E n \in TableNames : GbqInit(n)
  \/ \E f \in Frames : GbqSave(f)
  \/ GbqDeleteAll
  \/ \E k \in ChunkSizes : GbqQuery(k)

SpecGbq == InitGbq /\ [][NextGbq]_vars

\* ------------------------------------------------------------------ claims
\* The generator of the latest query was consumed to its end and no save or
\* delete_all was called since that query.
CleanDone == cur.state = "done" /\ cur.clean

\* The rows restricted to the columns cols.
RowsOn(rows, cols) ==
  [i \in 1..Len(rows) |-> [c \in cols \cap DOMAIN rows[i] |-> rows[i][c]]]

\* Every row of r occurs in s at least as often as in r.
BagIn(r, s) == \A x \in Range(r) : Count(r, x) <= Count(s, x)

\* Failures of the backend that do not depend on the payload.
PayloadIndependent == {"ConnectionLost", "DatabaseLocked"}

\* C1: when save(R) with R's columns those of the schema has returned and
\* query() is called next and consumed, the concatenated chunks contain
\* every row of R (on R's columns), as often as R does.
C1_SaveThenQueryContainsRows ==
  (CleanDone /\ cur.after = "save" /\ cur.given.cols = repo.table.cols)
    => BagIn(cur.given.rows, RowsOn(Concat(cur.chunks), cur.given.cols))

C1_Witness ==
  /\ CleanDone /\ cur.after = "save" /\ cur.given.cols = repo.table.cols
  /\ Len(cur.given.rows) = 2
  /\ Len(cur.atOpen) > Len(cur.given.rows)
  /\ Len(cur.chunks) >= 2

\* C2: delete_all() followed by query() yields zero rows, and a save of a
\* record set with the schema's columns is not rejected by the table.
C2_DeleteAllThenQueryEmpty ==
  /\ (CleanDone /\ cur.after = "delete_all") => Concat(cur.chunks) = <<>>
  /\ (last.op = "save" /\ last.on = "sql" /\ arg.cols = repo.table.cols /\ last.raised)
       => last.backend \in PayloadIndependent

\* C3 as stated: query(chunksize=k) over N >= 0 rows yields ceil(N/k)
\* chunks, all of k rows except the last, which has 1..k rows, and the
\* chunks concatenate to the N rows in insertion order.
C3_QueryChunksCeil ==
  CleanDone =>
    LET N == Len(cur.atOpen)
        k == cur.chunksize
        n == Len(cur.chunks)
    IN /\ n = CeilDiv(N, k)
       /\ \A i \in 1..(n - 1) : Len(cur.chunks[i]) = k
       /\ n > 0 => (Len(cur.chunks[n]) >= 1 /\ Len(cur.chunks[n]) <= k)
       /\ Concat(cur.chunks) = cur.atOpen

\* C3 amended: over N >= 1 rows the chunks are as stated; over N = 0 rows
\* query yields no chunk or, depending on the installed pandas, one chunk
\* without rows; in both cases the chunks concatenate to the N rows in
\* insertion order.
C3_QueryChunks ==
  CleanDone =>
    LET N == Len(cur.atOpen)
        k == cur.chunksize
        n == Len(cur.chunks)
    IN /\ N >= 1 => /\ n = CeilDiv(N, k)
                    /\ \A i \in 1..(n - 1) : Len(cur.chunks[i]) = k
                    /\ Len(cur.chunks[n]) >= 1 /\ Len(cur.chunks[n]) <= k
       /\ N = 0 => (cur.chunks = <<>> \/ cur.chunks = << <<>> >>)
       /\ N = 0 => (cur.chunks = <<>> <=> ~emptyChunk)
       /\ Concat(cur.chunks) = cur.atOpen

C3_Witness ==
  /\ CleanDone
  /\ Len(cur.atOpen) = 3 /\ cur.chunksize = 2
  /\ Len(cur.chunks) = 2 /\ Len(cur.chunks[2]) = 1
  /\ cur.atOpen[1] # cur.atOpen[2]

\* A step is a call of SqlRepository.save.
SaveStep == last'.op = "save" /\ last'.on = "sql"

\* C4 as stated: save of a record set whose column set differs from the
\* schema's raises DaoError and leaves the table's rows as they were.
C4_SaveRejectsOtherColumns ==
  [][(SaveStep /\ arg'.cols # repo.table.cols)
       => (last'.raised /\ last'.error.kind = "DaoError" /\ db' = db)]_vars

\* C4 amended: save of a record set with rows that names a column the
\* backend table lacks, or lacks a NOT NULL column of it, raises DaoError
\* and leaves every table as it was; a record set with rows that lacks only
\* nullable columns is appended, with NULL in those columns; a record set
\* without rows is accepted by an existing table whatever its columns.
C4_SaveRejectsUnknownOrRequired ==
  [][SaveStep =>
       LET tbl == db[repo.tablename] IN
       /\ (tbl.exists /\ arg'.rows # <<>>
             /\ (~(arg'.cols \subseteq tbl.cols) \/ ~(tbl.notnull \subseteq arg'.cols)))
            => (last'.raised /\ last'.error.kind = "DaoError" /\ db' = db)
       /\ (tbl.exists /\ arg'.rows # <<>> /\ ~last'.raised)
            => /\ Len(db'[repo.tablename].rows) = Len(tbl.rows) + Len(arg'.rows)
               /\ \A i \in 1..Len(arg'.rows) :
                    \A c \in tbl.cols :
                      db'[repo.tablename].rows[Len(tbl.rows) + i][c]
                        = IF c \in arg'.cols THEN arg'.rows[i][c] ELSE NULL
       /\ (tbl.exists /\ arg'.rows # <<>>
             /\ arg'.cols \subseteq tbl.cols /\ tbl.notnull \subseteq arg'.cols
             /\ last'.raised)
            => last'.backend \in PayloadIndependent
       /\ (tbl.exists /\ arg'.rows = <<>> /\ last'.raised)
            => last'.backend \in PayloadIndependent]_vars

C4_Witness ==
  /\ last.op = "save" /\ last.on = "sql" /\ last.raised
  /\ last.backend = "NotNullViolation"
  /\ arg.cols = MissingRequiredCols
  /\ repo.tablename = repo.table.name
  /\ Len(db[repo.tablename].rows) >= 1

\* C5: every save, delete_all and query on the warehouse repository raises
\* NotImplementedError at the call and leaves the repositories, the backend
\* tables and the generators as they were.
C5_GbqAlwaysUnsupported ==
  [][(last'.on = "gbq" /\ last'.op \in {"save", "delete_all", "query"})
       => /\ last'.raised
          /\ last'.error.kind = "NotImplementedError"
          /\ UNCHANGED <<db, repo, gbq, cur, saved>>]_vars

C5_Witness ==
  /\ last.on = "gbq" /\ last.op = "query" /\ last.raised
  /\ Len(db[CTD_TABLE_NAME].rows) = 2

\* C6: constructing a relational repository where the table already exists
\* succeeds and leaves the existing rows unchanged.
C6_ConstructionCreatesIfAbsent ==
  (last.op = "init" /\ last.on = "sql") => ~last.raised

\* C7: when the backend write of save fails, save raises DaoError carrying
\* the backend's failure; it raises nothing else, does not return normally
\* after a failed write, issues the write once, and raises only when the
\* write failed.
C7_SaveFailureIsDaoError ==
  (last.op = "save" /\ last.on = "sql") =>
    /\ last.backend # "" => /\ last.raised
                            /\ last.error = [kind |-> "DaoError", cause |-> last.backend]
    /\ last.raised => last.backend # ""
    /\ last.writes = 1

C7_Witness ==
  /\ last.op = "save" /\ last.on = "sql" /\ last.raised
  /\ last.backend = "ConnectionLost"
  /\ arg.cols = repo.table.cols /\ Len(arg.rows) = 2

\* C8: the rows an unfiltered query returns are the concatenation, in call
\* order, of the record sets of the saves that returned since construction
\* or the latest delete_all.
C8_QueryReturnsSavedRows ==
  /\ CleanDone => Concat(cur.chunks) = cur.expected
  /\ (last.op = "query" /\ last.on = "sql") => ~last.raised

C10_OneBackendTable ==
  /\ (last.on = "sql" /\ last.op \in {"save", "query"}) => last.target = repo.table.name
  /\ (last.on = "sql" /\ last.op = "save" /\ ~last.raised)
       => BagIn(arg.rows, RowsOn(db[repo.table.name].rows, arg.cols))

====
